---- MODULE Spec2Model ----
(***************************************************************************)
(* Model of Assignment2.py: a linear script that checks for a DICOM        *)
(* directory, reads the series, sums the folder's file sizes, prints a     *)
(* report, builds two transfer functions, wires three renderers into one   *)
(* window with a shared camera, and blocks in the interactor's event loop. *)
(*                                                                         *)
(* Numbers with decimals are scaled to integers: opacities, colours and    *)
(* lighting coefficients in hundredths, viewport coordinates in            *)
(* ten-thousandths, the zoom factor in tenths.                             *)
(***************************************************************************)
EXTENDS Integers, Sequences, FiniteSets, TLC

(* ------------------------------ bounds -------------------------------- *)

\* file entries a directory tree handed to folder_size_bytes may hold
MaxFiles == 3

\* file entries the dataset directory of a whole run of the script may hold
ScriptFiles == 1

\* mouse drags the user performs before closing the window
MaxDrags == 2

(* --------------------------- the file system --------------------------- *)

\* the directories a tree may have: 0 is the scanned path, 1 and 2 are
\* sub-directories of it, 3 is a sub-directory of 1
Parent == <<0, 0, 1>>

Dirs == 0 .. Len(Parent)

Top == 0

NoDir == Len(Parent) + 1

Sizes == {10, 20, 30}

VARIABLES
    dirs,          \* the directories that exist
    fileDir,       \* file entry -> the directory listing it (NoDir: no such entry)
    fileSize,      \* file entry -> what os.path.getsize reads for it
    unreadable,    \* directories whose listing fails with an OSError
    pc,            \* position of the script
    scanPc,        \* position inside folder_size_bytes
    total,         \* folder_size_bytes: total
    walkStack,     \* os.walk: directories still to be listed
    root,          \* os.walk: directory of the current triple
    files,         \* os.walk: file names of the current triple not yet iterated
    skipped,       \* file entries whose size read raised OSError in this call
    held,          \* per-file resources held by a size read in progress
    error,         \* the exception that ended the script, if any
    stdout,        \* lines printed so far
    objects,       \* toolkit objects constructed so far
    size_bytes,    \* script: size_bytes
    opacity,       \* vtkPiecewiseFunction: sorted sequence of <<x, y>>
    color,         \* vtkColorTransferFunction: sorted sequence of <<x, <<r, g, b>>>>
    viewport,      \* renderer -> <<xmin, ymin, xmax, ymax>>
    props,         \* renderer -> the view props added to it
    activeCamera,  \* renderer -> the camera object it holds
    camera,        \* camera object -> its state
    renWin,        \* the render window
    drags          \* mouse drags handled so far

fsVars == <<dirs, fileDir, fileSize, unreadable>>

scanVars == <<scanPc, total, walkStack, root, files, skipped, held>>

sceneVars == <<opacity, color, viewport, props, activeCamera, camera, renWin, drags>>

vars == <<fsVars, scanVars, sceneVars, pc, error, stdout, objects, size_bytes>>

\* the file entries of the tree
Entries == {f \in DOMAIN fileDir : fileDir[f] # NoDir}

\* what one numbered entry may be: missing, or a file of some size in some directory
EntryChoices == {<<NoDir, 0>>} \cup (Dirs \X Sizes)

\* the trees with at most n file entries: entries are numbered in listing
\* order, so their directories never decrease and missing entries come last
Trees(n) == {t \in [1 .. n -> EntryChoices] : \A f \in 1 .. n - 1 : t[f][1] <= t[f + 1][1]}

\* a directory exists only inside a directory that exists; the empty choice
\* is a scanned path that does not exist
DirChoices == {D \in SUBSET Dirs : \A d \in D : d = Top \/ Parent[d] \in D}

\* os.path.isdir(path) for the scanned path
exists == Top \in dirs

FsInit(n) ==
    /\ dirs \in DirChoices
    /\ \E t \in Trees(n) :
        /\ \A f \in 1 .. n : t[f][1] \in dirs \cup {NoDir}
        /\ fileDir = [f \in 1 .. n |-> t[f][1]]
        /\ fileSize = [f \in 1 .. n |-> t[f][2]]
    \* at most one directory of the tree refuses to be listed
    /\ unreadable \in {{}} \cup {{d} : d \in dirs}

RECURSIVE SortedSeq(_)
\* the members of a set of numbers in increasing order
SortedSeq(S) ==
    IF S = {} THEN <<>>
    ELSE LET m == CHOOSE x \in S : \A y \in S : x <= y
         IN <<m>> \o SortedSeq(S \ {m})

\* os.scandir(d) raises OSError: os.walk, given no onerror, drops the directory
ScandirFails(d) == d \notin dirs \/ d \in unreadable

\* the sub-directories os.walk finds in d
SubDirs(d) == {c \in dirs \ {Top} : Parent[c] = d}

\* the non-directory entries os.walk finds in d
FilesIn(d) == {f \in Entries : fileDir[f] = d}

(* -------------------------- folder_size_bytes -------------------------- *)

FrameInit ==
    /\ scanPc = "idle"
    /\ total = 0
    /\ walkStack = <<>>
    /\ root = Top
    /\ files = <<>>
    /\ skipped = {}
    /\ held = {}

FrameReset ==
    /\ scanPc' = "idle"
    /\ total' = 0
    /\ walkStack' = <<>>
    /\ root' = Top
    /\ files' = <<>>
    /\ skipped' = {}
    /\ held' = {}

\* lines 6-8: the call binds total = 0 and starts os.walk(path)
Call ==
    /\ pc \in {"direct", "size_bytes"}
    /\ scanPc = "idle"
    /\ scanPc' = "walk"
    /\ total' = 0
    /\ walkStack' = <<Top>>
    /\ UNCHANGED <<root, files, skipped, held>>
    /\ UNCHANGED <<fsVars, sceneVars, pc, error, stdout, objects, size_bytes>>

\* line 8: os.walk lists the next directory and yields (root, dirs, files);
\* its sub-directories are walked next, before the directories still pending
WalkDir ==
    /\ scanPc = "walk"
    /\ walkStack # <<>>
    /\ ~ScandirFails(Head(walkStack))
    /\ root' = Head(walkStack)
    /\ files' = SortedSeq(FilesIn(Head(walkStack)))
    /\ walkStack' = SortedSeq(SubDirs(Head(walkStack))) \o Tail(walkStack)
    /\ scanPc' = "files"
    /\ UNCHANGED <<total, skipped, held>>
    /\ UNCHANGED <<fsVars, sceneVars, pc, error, stdout, objects, size_bytes>>

\* the directory listed by hand, with no handler: the OSError escapes
WalkDirErrorEscapes ==
    /\ scanPc = "walk"
    /\ walkStack # <<>>
    /\ ScandirFails(Head(walkStack))
    /\ walkStack' = <<>>
    /\ error' = [type |-> "OSError", message |-> <<>>]
    /\ UNCHANGED <<scanPc, total, root, files, skipped, held>>
    /\ UNCHANGED <<fsVars, sceneVars, pc, stdout, objects, size_bytes>>

\* line 8: os.walk cannot list the next directory and silently goes on
WalkDirError ==
    /\ scanPc = "walk"
    /\ walkStack # <<>>
    /\ ScandirFails(Head(walkStack))
    /\ walkStack' = Tail(walkStack)
    /\ UNCHANGED <<scanPc, total, root, files, skipped, held>>
    /\ UNCHANGED <<fsVars, sceneVars, pc, error, stdout, objects, size_bytes>>

\* what the size read of file entry f holds while os.stat runs
StatAcquire(h, f) == h \cup {f}

\* the entry is never let go of
StatReleaseLeaks(h, f) == h

\* os.stat lets go of the entry on return, normal or by OSError
StatRelease(h, f) == h \ {f}

\* lines 9-12: the next file of the triple; os.path.getsize(fp) is entered
GetSizeCall ==
    /\ scanPc = "files"
    /\ files # <<>>
    /\ held' = StatAcquire(held, Head(files))
    /\ scanPc' = "getsize"
    /\ UNCHANGED <<total, walkStack, root, files, skipped>>
    /\ UNCHANGED <<fsVars, sceneVars, pc, error, stdout, objects, size_bytes>>

\* "=" written for "+=": the total is overwritten by each file
AddSizeOverwrites(t, f) == fileSize[f]

\* line 12: total += os.path.getsize(fp)
AddSize(t, f) == t + fileSize[f]

\* line 12: the size read succeeds
GetSizeReturn ==
    /\ scanPc = "getsize"
    /\ total' = AddSize(total, Head(files))
    /\ held' = StatRelease(held, Head(files))
    /\ files' = Tail(files)
    /\ scanPc' = "files"
    /\ UNCHANGED <<walkStack, root, skipped>>
    /\ UNCHANGED <<fsVars, sceneVars, pc, error, stdout, objects, size_bytes>>

\* lines 13-14: except OSError: pass
OnOSError(t, f) == t

\* the try wrapped around the loops instead of the one read: the first
\* OSError ends the scan
GetSizeRaiseEndsScan ==
    /\ scanPc = "getsize"
    /\ total' = OnOSError(total, Head(files))
    /\ held' = StatRelease(held, Head(files))
    /\ skipped' = skipped \cup {Head(files)}
    /\ files' = <<>>
    /\ walkStack' = <<>>
    /\ scanPc' = "files"
    /\ UNCHANGED root
    /\ UNCHANGED <<fsVars, sceneVars, pc, error, stdout, objects, size_bytes>>

\* lines 12-14: the size read raises OSError (the file is gone, or may not
\* be examined); the file is skipped
GetSizeRaise ==
    /\ scanPc = "getsize"
    /\ total' = OnOSError(total, Head(files))
    /\ held' = StatRelease(held, Head(files))
    /\ skipped' = skipped \cup {Head(files)}
    /\ files' = Tail(files)
    /\ scanPc' = "files"
    /\ UNCHANGED <<walkStack, root>>
    /\ UNCHANGED <<fsVars, sceneVars, pc, error, stdout, objects, size_bytes>>

\* line 9: the inner loop is exhausted; back to os.walk
FilesDone ==
    /\ scanPc = "files"
    /\ files = <<>>
    /\ scanPc' = "walk"
    /\ UNCHANGED <<total, walkStack, root, files, skipped, held>>
    /\ UNCHANGED <<fsVars, sceneVars, pc, error, stdout, objects, size_bytes>>

\* line 8: os.walk is exhausted; line 15 is next
WalkDone ==
    /\ scanPc = "walk"
    /\ walkStack = <<>>
    /\ scanPc' = "return"
    /\ UNCHANGED <<total, walkStack, root, files, skipped, held>>
    /\ UNCHANGED <<fsVars, sceneVars, pc, error, stdout, objects, size_bytes>>

\* line 15 (and line 57 in the script): return total; the frame is dropped
Return ==
    /\ scanPc = "return"
    /\ size_bytes' = total
    /\ pc' = IF pc = "direct" THEN "returned" ELSE "version"
    /\ FrameReset
    /\ UNCHANGED <<fsVars, sceneVars, error, stdout, objects>>

folder_size_bytes ==
    \/ Call
    \/ WalkDir
    \/ WalkDirError
    \/ GetSizeCall
    \/ GetSizeReturn
    \/ GetSizeRaise
    \/ FilesDone
    \/ WalkDone
    \/ Return

(* ------------------------------ toolkit -------------------------------- *)

Renderers == {"volumeRenderer", "isoRenderer", "comboRenderer"}

\* a renderer with no camera set makes one of its own when it first needs it
OwnCamera(r) == r

Cameras == {"shared_camera"} \cup {OwnCamera(r) : r \in Renderers}

NoCamera == "none"

NewCamera == [made |-> FALSE, reset |-> FALSE, zoom |-> 10, azimuth |-> 0]

\* vtkRenderer::GetActiveCamera: the camera set, else a camera of its own
CameraOf(ac, r) == IF ac[r] = NoCamera THEN OwnCamera(r) ELSE ac[r]

\* vtkRenderer keeps volumes, actors and 2D actors in separate collections
PropKind(p) ==
    CASE p = "volume" -> "Volume"
      [] p = "iso_actor" -> "Actor"
      [] OTHER -> "Actor2D"

GetVolumes(r) == {p \in props[r] : PropKind(p) = "Volume"}

GetActors(r) == {p \in props[r] : PropKind(p) = "Actor"}

GetActors2D(r) == {p \in props[r] : PropKind(p) = "Actor2D"}

RECURSIVE InsertPoint(_, _)
\* a node put at its place in a sequence of nodes sorted by scalar value
InsertPoint(fn, node) ==
    IF fn = <<>> THEN <<node>>
    ELSE IF node[1] < Head(fn)[1] THEN <<node>> \o fn
    ELSE <<Head(fn)>> \o InsertPoint(Tail(fn), node)

RECURSIVE RemovePoint(_, _)
\* the sequence of nodes without the node at scalar value x, if there is one
RemovePoint(fn, x) ==
    IF fn = <<>> THEN <<>>
    ELSE IF Head(fn)[1] = x THEN RemovePoint(Tail(fn), x)
    ELSE <<Head(fn)>> \o RemovePoint(Tail(fn), x)

\* vtkPiecewiseFunction::AddPoint and vtkColorTransferFunction::AddRGBPoint:
\* a node already at x is removed, the new node is inserted, nodes stay sorted
AddPoint(fn, x, y) == InsertPoint(RemovePoint(fn, x), <<x, y>>)

RECURSIVE AddPoints(_, _)
\* the calls of a block, in program order
AddPoints(fn, calls) ==
    IF calls = <<>> THEN fn
    ELSE AddPoints(AddPoint(fn, Head(calls)[1], Head(calls)[2]), Tail(calls))

\* exact lookup of the node at scalar value x: its value, or -1 when there is none
NodeAt(fn, x) ==
    IF \E i \in 1 .. Len(fn) : fn[i][1] = x
    THEN fn[CHOOSE i \in 1 .. Len(fn) : fn[i][1] = x][2]
    ELSE -1

(* ------------------------------ the script ------------------------------ *)

dicom_dir == "Skull_Dataset"

\* lines 39-42: the FileNotFoundError raised for a missing directory
MissingDirError ==
    [type |-> "FileNotFoundError",
     message |-> <<"Cannot find DICOM directory: '", dicom_dir,
                   "'. Put your DICOM slices inside this folder or update dicom_dir.">>]

NoError == [type |-> "none", message |-> <<>>]

SceneInit ==
    /\ opacity = <<>>
    /\ color = <<>>
    /\ viewport = [r \in Renderers |-> <<0, 0, 10000, 10000>>]
    /\ props = [r \in Renderers |-> {}]
    /\ activeCamera = [r \in Renderers |-> NoCamera]
    /\ camera = [c \in Cameras |-> NewCamera]
    /\ renWin = [renderers |-> {}, size |-> <<0, 0>>, open |-> FALSE]
    /\ drags = 0

ScriptInit ==
    /\ error = NoError
    /\ stdout = <<>>
    /\ objects = {}
    /\ size_bytes = -1

\* the script is started
Init ==
    /\ FsInit(ScriptFiles)
    /\ FrameInit
    /\ SceneInit
    /\ ScriptInit
    /\ pc = "check_dir"

\* folder_size_bytes is called on its own, on any tree
ScanInit ==
    /\ FsInit(MaxFiles)
    /\ FrameInit
    /\ SceneInit
    /\ ScriptInit
    /\ pc = "direct"

\* the check left out: the script goes on to the reader
CheckDirLeftOut ==
    /\ pc = "check_dir"
    /\ pc' = "reader"
    /\ UNCHANGED <<fsVars, scanVars, sceneVars, error, stdout, objects, size_bytes>>

\* lines 38-42: if not os.path.isdir(dicom_dir): raise FileNotFoundError(...)
CheckDir ==
    /\ pc = "check_dir"
    /\ IF exists
       THEN pc' = "reader" /\ error' = error
       ELSE pc' = "raised" /\ error' = MissingDirError
    /\ UNCHANGED <<fsVars, scanVars, sceneVars, stdout, objects, size_bytes>>

\* a step of the script that constructs and configures toolkit objects only
Construct(from, to, made) ==
    /\ pc = from
    /\ pc' = to
    /\ objects' = objects \cup made
    /\ UNCHANGED <<fsVars, scanVars, error, stdout, size_bytes>>

\* lines 45-47: the DICOM series is read
ReadSeries ==
    /\ Construct("reader", "image_info", {"reader"})
    /\ UNCHANGED sceneVars

\* lines 50-56: image, scalar range, dimensions, spacing, origin
ImageInfo ==
    /\ Construct("image_info", "size_bytes", {"image"})
    /\ UNCHANGED sceneVars

\* line 58 and the {size_mb:.2f} of line 67: megabytes, in hundredths
SizeMb(bytes) == (bytes * 200 + 1024 * 1024) \div (2 * 1024 * 1024)

\* lines 58-59: size_mb, vtk_version
Version ==
    /\ Construct("version", "print", {})
    /\ UNCHANGED sceneVars

\* lines 62-68: the seven lines of the report
Report(bytes) ==
    <<[text |-> "Dataset Info of Cancer Cell of Brain", value |-> 0],
      [text |-> "Dimensions (Nx, Ny, Nz)", value |-> 0],
      [text |-> "Spacing / Voxel size (sx, sy, sz)", value |-> 0],
      [text |-> "Origin", value |-> 0],
      [text |-> "Scalar range (min, max)", value |-> 0],
      [text |-> "DICOM folder size", value |-> SizeMb(bytes)],
      [text |-> "VTK Version", value |-> 0]>>

\* the report printed a second time
PrintReportTwice ==
    /\ pc = "print"
    /\ pc' = "opacity"
    /\ stdout' = stdout \o Report(size_bytes) \o Report(size_bytes)
    /\ UNCHANGED <<fsVars, scanVars, sceneVars, error, objects, size_bytes>>

\* lines 62-68: print(...)
PrintReport ==
    /\ pc = "print"
    /\ pc' = "opacity"
    /\ stdout' = stdout \o Report(size_bytes)
    /\ UNCHANGED <<fsVars, scanVars, sceneVars, error, objects, size_bytes>>

\* a later AddPoint(0, 0.00) that replaces the node inserted at 0
OpacityPointsOverwritten ==
    <<<<-2048, 0>>, <<-1000, 0>>, <<-300, 0>>, <<0, 3>>, <<200, 8>>,
      <<500, 18>>, <<900, 35>>, <<1400, 60>>, <<0, 0>>>>

\* lines 73-81: opacity.AddPoint(x, y), y in hundredths
OpacityPoints ==
    <<<<-2048, 0>>, <<-1000, 0>>, <<-300, 0>>, <<0, 3>>, <<200, 8>>,
      <<500, 18>>, <<900, 35>>, <<1400, 60>>, <<5449, 85>>>>

\* the table once the calls of lines 73-81 are made on the empty function
OpacityTable == AddPoints(<<>>, OpacityPoints)

\* lines 72-81: the opacity transfer function
BuildOpacity ==
    /\ Construct("opacity", "color", {"opacity"})
    /\ opacity' = OpacityTable
    /\ UNCHANGED <<color, viewport, props, activeCamera, camera, renWin, drags>>

\* lines 85-91: color.AddRGBPoint(x, r, g, b), r, g, b in hundredths
ColorPoints ==
    <<<<-2048, <<0, 0, 0>>>>, <<-500, <<0, 0, 0>>>>, <<0, <<35, 15, 12>>>>,
      <<300, <<75, 35, 20>>>>, <<800, <<90, 75, 45>>>>, <<1400, <<95, 90, 80>>>>,
      <<5449, <<100, 100, 95>>>>>>

\* the table once the calls of lines 85-91 are made on the empty function
ColorTable == AddPoints(<<>>, ColorPoints)

\* lines 84-91: the colour transfer function
BuildColor ==
    /\ Construct("color", "volume_prop", {"color"})
    /\ color' = ColorTable
    /\ UNCHANGED <<opacity, viewport, props, activeCamera, camera, renWin, drags>>

\* lines 94-111: volume property, volume mapper, volume
BuildVolume ==
    /\ Construct("volume_prop", "mc", {"volume_prop", "volume_mapper", "volume"})
    /\ UNCHANGED sceneVars

\* lines 114-139: marching cubes, normals, iso-surface mapper and actor
BuildIsoSurface ==
    /\ Construct("mc", "renderers", {"mc", "normals", "iso_mapper", "iso_actor"})
    /\ UNCHANGED sceneVars

\* lines 142-144: the three renderers
CreateRenderers ==
    /\ Construct("renderers", "viewports", Renderers)
    /\ UNCHANGED sceneVars

\* the middle viewport starting at 0.3334: a gap after the first
ViewportsWithGap ==
    [volumeRenderer |-> <<0, 0, 3333, 10000>>,
     isoRenderer |-> <<3334, 0, 6666, 10000>>,
     comboRenderer |-> <<6666, 0, 10000, 10000>>]

\* lines 147-149: SetViewport(xmin, ymin, xmax, ymax), in ten-thousandths
Viewports ==
    [volumeRenderer |-> <<0, 0, 3333, 10000>>,
     isoRenderer |-> <<3333, 0, 6666, 10000>>,
     comboRenderer |-> <<6666, 0, 10000, 10000>>]

\* lines 146-149
SetViewports ==
    /\ Construct("viewports", "add_props", {})
    /\ viewport' = Viewports
    /\ UNCHANGED <<opacity, color, props, activeCamera, camera, renWin, drags>>

\* lines 152-159: AddVolume and AddActor
SceneProps ==
    [volumeRenderer |-> {"volume"},
     isoRenderer |-> {"iso_actor"},
     comboRenderer |-> {"volume", "iso_actor"}]

\* lines 151-164: the props of each viewport, and the backgrounds
AddProps ==
    /\ Construct("add_props", "labels", {})
    /\ props' = [r \in Renderers |-> props[r] \cup SceneProps[r]]
    /\ UNCHANGED <<opacity, color, viewport, activeCamera, camera, renWin, drags>>

\* lines 167-169 and 184: AddActor2D
Labels ==
    [volumeRenderer |-> {"label_volume"},
     isoRenderer |-> {"label_iso"},
     comboRenderer |-> {"label_combo", "info_actor"}]

\* lines 167-184: make_label for each viewport, and the info text of viewport 3
AddLabels ==
    /\ Construct("labels", "shared_camera",
                 {"label_volume", "label_iso", "label_combo", "info_actor"})
    /\ props' = [r \in Renderers |-> props[r] \cup Labels[r]]
    /\ UNCHANGED <<opacity, color, viewport, activeCamera, camera, renWin, drags>>

\* isoRenderer.SetActiveCamera(shared_camera) forgotten
CameraUsersButIso == {"volumeRenderer", "comboRenderer"}

\* lines 188-190: the renderers given shared_camera by SetActiveCamera
CameraUsers == {"volumeRenderer", "isoRenderer", "comboRenderer"}

\* lines 187-190: one camera for all three viewports
SetSharedCamera ==
    /\ Construct("shared_camera", "reset_camera", {"shared_camera"})
    /\ activeCamera' = [r \in Renderers |->
                           IF r \in CameraUsers THEN "shared_camera" ELSE activeCamera[r]]
    /\ camera' = [camera EXCEPT !["shared_camera"].made = TRUE]
    /\ UNCHANGED <<opacity, color, viewport, props, renWin, drags>>

\* line 194: shared_camera.Zoom(1.2), the factor in tenths
Zoom(z) == (z * 12) \div 10

\* lines 193-194: volumeRenderer.ResetCamera(); shared_camera.Zoom(1.2)
ResetAndZoom ==
    /\ Construct("reset_camera", "ren_win", {})
    /\ LET c == CameraOf(activeCamera, "volumeRenderer")
           afterReset == [camera EXCEPT ![c].made = TRUE, ![c].reset = TRUE]
       IN camera' = [afterReset EXCEPT !["shared_camera"].zoom = Zoom(@)]
    /\ activeCamera' = [activeCamera EXCEPT !["volumeRenderer"] = CameraOf(activeCamera, "volumeRenderer")]
    /\ UNCHANGED <<opacity, color, viewport, props, renWin, drags>>

\* lines 199-201: renWin.AddRenderer
WindowRenderers == {"volumeRenderer", "isoRenderer", "comboRenderer"}

\* lines 197-201: the render window
CreateWindow ==
    /\ Construct("ren_win", "interactor", {"renWin"})
    /\ renWin' = [renWin EXCEPT !.size = <<1800, 800>>, !.renderers = WindowRenderers]
    /\ UNCHANGED <<opacity, color, viewport, props, activeCamera, camera, drags>>

\* lines 204-207: the interactor and its trackball style
CreateInteractor ==
    /\ Construct("interactor", "render", {"winInteract", "style"})
    /\ UNCHANGED sceneVars

\* vtkRenderWindow::Render: every renderer of the window draws with its active
\* camera; one that has none makes its own and resets it
RenderWindow(w, ac, cam) ==
    [win |-> [w EXCEPT !.open = TRUE],
     ac |-> [r \in Renderers |-> IF r \in w.renderers THEN CameraOf(ac, r) ELSE ac[r]],
     cam |-> [c \in Cameras |->
                IF \E r \in w.renderers : ac[r] = NoCamera /\ c = OwnCamera(r)
                THEN [cam[c] EXCEPT !.made = TRUE, !.reset = TRUE]
                ELSE cam[c]]]

\* line 210: renWin.Render()
Render ==
    /\ Construct("render", "initialize", {})
    /\ LET r == RenderWindow(renWin, activeCamera, camera)
       IN /\ renWin' = r.win
          /\ activeCamera' = r.ac
          /\ camera' = r.cam
    /\ UNCHANGED <<opacity, color, viewport, props, drags>>

\* line 211: winInteract.Initialize()
Initialize ==
    /\ Construct("initialize", "start", {})
    /\ UNCHANGED sceneVars

\* line 212: winInteract.Start() enters the event loop
Start ==
    /\ Construct("start", "event_loop", {})
    /\ UNCHANGED sceneVars

\* the trackball style rotates the active camera of the renderer under the
\* mouse, and the window is drawn again
Drag(r) ==
    /\ pc = "event_loop"
    /\ renWin.open
    /\ r \in renWin.renderers
    /\ drags < MaxDrags
    /\ drags' = drags + 1
    /\ camera' = [camera EXCEPT ![CameraOf(activeCamera, r)].azimuth = @ + 1]
    /\ UNCHANGED <<opacity, color, viewport, props, activeCamera, renWin>>
    /\ UNCHANGED <<fsVars, scanVars, pc, error, stdout, objects, size_bytes>>

\* the user closes the window
CloseWindow ==
    /\ pc = "event_loop"
    /\ renWin.open
    /\ renWin' = [renWin EXCEPT !.open = FALSE]
    /\ UNCHANGED <<opacity, color, viewport, props, activeCamera, camera, drags>>
    /\ UNCHANGED <<fsVars, scanVars, pc, error, stdout, objects, size_bytes>>

\* Start() returning at once, as a single render pass would
LoopEndsAtOnce == TRUE

\* the event loop of Start() ends when the window is gone
LoopEnds == ~renWin.open

\* line 212: winInteract.Start() returns, and the script ends with it
StartReturns ==
    /\ pc = "event_loop"
    /\ LoopEnds
    /\ pc' = "done"
    /\ UNCHANGED <<fsVars, scanVars, sceneVars, error, stdout, objects, size_bytes>>

\* the steps the interpreter takes on its own
ScriptStep ==
    \/ CheckDir
    \/ ReadSeries
    \/ ImageInfo
    \/ Version
    \/ PrintReport
    \/ BuildOpacity
    \/ BuildColor
    \/ BuildVolume
    \/ BuildIsoSurface
    \/ CreateRenderers
    \/ SetViewports
    \/ AddProps
    \/ AddLabels
    \/ SetSharedCamera
    \/ ResetAndZoom
    \/ CreateWindow
    \/ CreateInteractor
    \/ Render
    \/ Initialize
    \/ Start
    \/ StartReturns

\* what the user does to the window
UserStep ==
    \/ \E r \in Renderers : Drag(r)
    \/ CloseWindow

Next ==
    \/ ScriptStep
    \/ folder_size_bytes
    \/ UserStep

Spec == Init /\ [][Next]_vars

ScanSpec == ScanInit /\ [][folder_size_bytes]_vars

\* the interpreter does not stop while a step of the script can be taken
ScriptFairness ==
    /\ WF_vars(CheckDir)
    /\ WF_vars(ReadSeries)
    /\ WF_vars(ImageInfo)
    /\ WF_vars(Version)
    /\ WF_vars(PrintReport)
    /\ WF_vars(BuildOpacity)
    /\ WF_vars(BuildColor)
    /\ WF_vars(BuildVolume)
    /\ WF_vars(BuildIsoSurface)
    /\ WF_vars(CreateRenderers)
    /\ WF_vars(SetViewports)
    /\ WF_vars(AddProps)
    /\ WF_vars(AddLabels)
    /\ WF_vars(SetSharedCamera)
    /\ WF_vars(ResetAndZoom)
    /\ WF_vars(CreateWindow)
    /\ WF_vars(CreateInteractor)
    /\ WF_vars(Render)
    /\ WF_vars(Initialize)
    /\ WF_vars(Start)
    /\ WF_vars(StartReturns)

\* nor inside folder_size_bytes; which way a size read ends is not the
\* interpreter's choice, so one fairness condition covers both ways
ScanFairness ==
    /\ WF_vars(Call)
    /\ WF_vars(WalkDir)
    /\ WF_vars(WalkDirError)
    /\ WF_vars(GetSizeCall)
    /\ WF_vars(FilesDone)
    /\ WF_vars(WalkDone)
    /\ WF_vars(Return)
    /\ WF_vars(GetSizeReturn \/ GetSizeRaise)

\* the script as run to its end: the interpreter keeps going, and the user
\* closes the window at some time
FairSpec ==
    /\ Spec
    /\ ScriptFairness
    /\ ScanFairness
    /\ WF_vars(CloseWindow)

(* ------------------------------ properties ------------------------------ *)

RECURSIVE SumSizes(_)
\* the sum of the sizes of a set of file entries
SumSizes(S) ==
    IF S = {} THEN 0
    ELSE LET f == CHOOSE x \in S : TRUE
         IN fileSize[f] + SumSizes(S \ {f})

RECURSIVE Listed(_)
\* directory d can be reached from the scanned path: it and every directory
\* above it can be listed
Listed(d) == ~ScandirFails(d) /\ (d = Top \/ Listed(Parent[d]))

\* the file entries found at any depth under the scanned path
Found == {f \in Entries : Listed(fileDir[f])}

\* the positions of the script, in program order
Order ==
    <<"check_dir", "reader", "image_info", "size_bytes", "version", "print",
      "opacity", "color", "volume_prop", "mc", "renderers", "viewports",
      "add_props", "labels", "shared_camera", "reset_camera", "ren_win",
      "interactor", "render", "initialize", "start", "event_loop", "done">>

\* the script has gone past position p
Past(p) ==
    \E i, j \in 1 .. Len(Order) : Order[i] = p /\ Order[j] = pc /\ i < j

\* C1: when every size read succeeds, folder_size_bytes returns the sum of the
\* sizes of all file entries found at any depth under the path, each counted
\* once; with every directory listable these are all the file entries of the tree
C1_SumOfAllFound ==
    (scanPc = "return" /\ skipped = {}) =>
        /\ total = SumSizes(Found)
        /\ (unreadable = {} /\ exists) => total = SumSizes(Entries)

\* C1 witness: files of 10, 20 and 30 bytes one level deep, and 60 returned
C1_Witness ==
    /\ scanPc = "return"
    /\ skipped = {}
    /\ unreadable = {}
    /\ \A f \in DOMAIN fileDir : fileDir[f] = 1
    /\ {fileSize[f] : f \in DOMAIN fileSize} = {10, 20, 30}
    /\ total = 60

\* C2: whichever size reads fail, folder_size_bytes returns, raises nothing,
\* prints nothing, and returns the sum of the sizes of the files whose size
\* read succeeded
C2_SkipsFailedReads ==
    /\ error = NoError
    /\ stdout = <<>>
    /\ scanPc = "return" => total = SumSizes(Found \ skipped)

\* C2 witness: a scan that skipped one file and summed two others returns
C2_Witness ==
    /\ scanPc = "return"
    /\ Cardinality(skipped) = 1
    /\ Cardinality(Found \ skipped) = 2
    /\ total = SumSizes(Found \ skipped)
    /\ total > 0

\* C3: folder_size_bytes returns 0 and raises nothing for a directory without
\* file entries and for a path that cannot be listed or does not exist
C3_ZeroForEmptyOrUnreadable ==
    /\ pc = "direct" => error = NoError
    /\ (scanPc = "return" /\ (Entries = {} \/ ScandirFails(Top))) => total = 0

\* C3 witness: a path that holds files but cannot be listed, and 0 returned
C3_Witness ==
    /\ scanPc = "return"
    /\ Top \in unreadable
    /\ Entries # {}
    /\ total = 0
    /\ error = NoError

\* C3, its other cases: an empty directory, and a path that does not exist
C3_WitnessEmpty == scanPc = "return" /\ dirs = {Top} /\ Entries = {} /\ total = 0

C3_WitnessMissing == scanPc = "return" /\ ~exists /\ total = 0

\* C4: with the dataset directory missing the script stops at the check with
\* a FileNotFoundError naming the path; no toolkit object is constructed,
\* nothing is printed, nothing is rendered and no interaction takes place
C4_MissingDirectoryIsFatal ==
    ~exists =>
        /\ pc \in {"check_dir", "raised"}
        /\ pc = "raised" =>
            /\ error.type = "FileNotFoundError"
            /\ \E i \in 1 .. Len(error.message) : error.message[i] = dicom_dir
        /\ objects = {}
        /\ stdout = <<>>
        /\ scanPc = "idle"
        /\ ~renWin.open
        /\ drags = 0

\* C4 witness: the script has raised on a missing directory
C4_Witness == ~exists /\ pc = "raised" /\ error = MissingDirError

\* C5: once built, the opacity table holds the nodes (0, 0.03) and
\* (1400, 0.60), and keeps them to the end of the run
C5_OpacityControlPoints ==
    "opacity" \in objects =>
        /\ NodeAt(opacity, 0) = 3
        /\ NodeAt(opacity, 1400) = 60

\* C5 witness: the table of nine nodes, still looked up in the event loop
C5_Witness ==
    /\ pc = "event_loop"
    /\ Len(opacity) = 9
    /\ NodeAt(opacity, 0) = 3
    /\ NodeAt(opacity, 1400) = 60

\* set-up is over: the script is at or past renWin.Render()
SetUpDone == pc = "render" \/ Past("render")

\* C6: after set-up the three renderers hold the one camera object
\* shared_camera and belong to the one render window; the first viewport
\* shows the volume only, the second the iso-surface actor only, the third
\* both (each under its 2D text overlays); every viewport sees the same camera
\* state, whatever the interaction did to it
C6_SharedCamera ==
    SetUpDone =>
        /\ \A r \in Renderers : activeCamera[r] = "shared_camera"
        /\ {c \in Cameras : camera[c].made} = {"shared_camera"}
        /\ renWin.renderers = Renderers
        /\ GetVolumes("volumeRenderer") = {"volume"} /\ GetActors("volumeRenderer") = {}
        /\ GetVolumes("isoRenderer") = {} /\ GetActors("isoRenderer") = {"iso_actor"}
        /\ GetVolumes("comboRenderer") = {"volume"} /\ GetActors("comboRenderer") = {"iso_actor"}
        /\ \A r1, r2 \in Renderers :
              camera[CameraOf(activeCamera, r1)] = camera[CameraOf(activeCamera, r2)]
        /\ \A r \in Renderers : camera[CameraOf(activeCamera, r)].azimuth = drags

\* C6 witness: the window is open and the camera has been dragged
C6_Witness ==
    /\ pc = "event_loop"
    /\ renWin.open
    /\ drags > 0
    /\ \A r \in Renderers : camera[activeCamera[r]].azimuth = drags

\* C7: the report is printed once, in one piece: nothing is printed before the
\* print step, which comes after the series is read and the folder scan has
\* returned and before the window is first rendered; from then on the output
\* is the seven lines of the report, each once
C7_ReportPrintedOnce ==
    /\ (pc = "raised" \/ pc = "print" \/ ~Past("print")) => stdout = <<>> /\ ~renWin.open
    /\ pc = "print" => "reader" \in objects /\ scanPc = "idle" /\ size_bytes >= 0
    /\ Past("print") =>
          /\ stdout = Report(size_bytes)
          /\ \A i, j \in 1 .. Len(stdout) : stdout[i].text = stdout[j].text => i = j
    /\ (renWin.open \/ Past("render")) => Past("print")

\* C7 witness: the event loop runs with the report of a non-empty folder printed
C7_Witness ==
    /\ pc = "event_loop"
    /\ renWin.open
    /\ size_bytes > 0
    /\ Len(stdout) = 7
    /\ stdout[6] = [text |-> "DICOM folder size", value |-> SizeMb(size_bytes)]

C9_PerFileRelease ==
    /\ Cardinality(held) <= 1
    /\ scanPc # "getsize" => held = {}
    /\ scanPc = "getsize" => held = {Head(files)}

\* C9 witness: a read in progress after an earlier read failed and one succeeded
C9_Witness ==
    /\ scanPc = "getsize"
    /\ held = {Head(files)}
    /\ skipped # {}
    /\ total > 0

\* the viewports from left to right
LeftToRight == <<"volumeRenderer", "isoRenderer", "comboRenderer">>

\* C10: once set, the three viewports tile the window: each spans the full
\* height, their horizontal ranges are [0, 0.3333], [0.3333, 0.6666] and
\* [0.6666, 1], each starts where the one before it ends, their interiors are
\* disjoint and together they cover the width
C10_ViewportsTile ==
    Past("viewports") =>
        /\ \A r \in Renderers :
              viewport[r][2] = 0 /\ viewport[r][4] = 10000 /\ viewport[r][1] < viewport[r][3]
        /\ viewport[LeftToRight[1]][1] = 0
        /\ viewport[LeftToRight[3]][3] = 10000
        /\ \A i \in 1 .. 2 : viewport[LeftToRight[i]][3] = viewport[LeftToRight[i + 1]][1]
        /\ \A i, j \in 1 .. 3 : i < j => viewport[LeftToRight[i]][3] <= viewport[LeftToRight[j]][1]
        /\ <<viewport["volumeRenderer"][1], viewport["volumeRenderer"][3]>> = <<0, 3333>>
        /\ <<viewport["isoRenderer"][1], viewport["isoRenderer"][3]>> = <<3333, 6666>>
        /\ <<viewport["comboRenderer"][1], viewport["comboRenderer"][3]>> = <<6666, 10000>>

\* C10 witness: the window is drawn with the three viewports set
C10_Witness ==
    /\ renWin.open
    /\ renWin.renderers = Renderers
    /\ viewport["isoRenderer"] = <<3333, 0, 6666, 10000>>

====
